---- MODULE Spec2Model ----
(***************************************************************************)
(* Contract analysis multi-agent system: the orchestrator analyze_contract *)
(* (src/contract_analysis_system.py) as a state machine, one step per      *)
(* agent call and per return / except block, and extract_text_from_pdf as  *)
(* a page loop over a described file.                                      *)
(*                                                                         *)
(* Conventions.  A Python dict is a TLA+ function over its string keys     *)
(* ({} is <<>>).  A str whose characters matter (contract text, contract   *)
(* name, extracted PDF text) is a sequence of one-character strings; an    *)
(* opaque str (a model reply, an exception message) is a TLA+ string.      *)
(* confidence_score is kept in hundredths (0.8 is 80).  None is the model  *)
(* value None, a record no other value equals.                             *)
(***************************************************************************)
EXTENDS Integers, Sequences, FiniteSets, TLC

VARIABLES
    pc,                   \* position of analyze_contract
    contract_text,        \* argument contract_text
    contract_name,        \* argument contract_name
    agent_responses,      \* local list agent_responses
    structure_analysis,   \* local structure_analysis
    legal_analysis,       \* local legal_analysis
    negotiation_analysis, \* local negotiation_analysis
    consolidation_prompt, \* local consolidation_prompt
    result,               \* the value analyze_contract returned
    propagated,           \* the exception analyze_contract let escape
    calls,                \* the hosted-model side: every run() call received
    clock,                \* datetime.now(), in ticks
    pdf_pc,               \* position of extract_text_from_pdf
    pdf_file,             \* the file behind pdf_path
    page_num,             \* loop index of the page loop
    text_content,         \* local list text_content
    pdf_result,           \* the value extract_text_from_pdf returned
    pdf_raised,           \* the exception extract_text_from_pdf let escape
    fs,                   \* the file system save_analysis_results writes to
    save_return,          \* the value save_analysis_results returned last
    save_raised,          \* the exception save_analysis_results let escape
    saves,                \* every call of save_analysis_results, in order
    current_analysis,     \* st.session_state.current_analysis
    analysis_history,     \* st.session_state.analysis_history
    ui_message,           \* the st.success / st.error box shown last
    rendered,             \* what the renderer called last has put out
    system,               \* st.session_state.system
    session_contract_text, \* st.session_state.contract_text
    session_contract_name, \* st.session_state.contract_name
    uploaded_file         \* the file held by the uploader while it is read

vars == <<pc, contract_text, contract_name, agent_responses, structure_analysis,
          legal_analysis, negotiation_analysis, consolidation_prompt, result,
          propagated, calls, clock, pdf_pc, pdf_file, page_num, text_content,
          pdf_result, pdf_raised, fs, save_return, save_raised, saves,
          current_analysis, analysis_history, ui_message, rendered,
          system, session_contract_text, session_contract_name, uploaded_file>>

orchVars == <<pc, contract_text, contract_name, agent_responses,
              structure_analysis, legal_analysis, negotiation_analysis,
              consolidation_prompt, result, propagated, calls, clock>>

pdfVars == <<pdf_pc, pdf_file, page_num, text_content, pdf_result, pdf_raised>>

saveVars == <<fs, save_return, save_raised, saves>>

sessionVars == <<system, session_contract_text, session_contract_name, uploaded_file>>

uiVars == <<current_analysis, analysis_history, ui_message, rendered, sessionVars>>

None == [none |-> TRUE]

----------------------------------------------------------------------------
(* Bounds and input domains *)

MaxClock == 2

TicksPerSecond == 2

MaxPages == 3

MaxSaves == 2

\* analyses one session runs
MaxHistory == 2

\* contract texts handed to analyze_contract
Texts == { <<>>, <<"a">>, <<"a", " ", "b">> }

\* display names handed to analyze_contract
Names == { <<"N">>, <<"A", "/", "b">> }

\* run() results: an object with a .content attribute, or one without
Replies ==
    { [has_content |-> TRUE,  content |-> "risk_level: HIGH", str |-> "RunResponse"],
      [has_content |-> FALSE, content |-> "",                 str |-> "risk_level: LOW"] }

\* classes derived from Exception
ExceptionClasses ==
    { "Exception", "ConnectionError", "ValueError", "OSError", "PdfReadError",
      "FileNotFoundError", "PermissionError", "TypeError" }

\* exceptions a run() call raises
Errors ==
    { [type |-> "ConnectionError", msg |-> "timed out"],
      [type |-> "ValueError",      msg |-> "bad reply"] }

----------------------------------------------------------------------------
(* Helpers of the orchestrator *)

\* datetime.now().isoformat()
IsoFormat(t) == [second |-> t \div TicksPerSecond, tick |-> t % TicksPerSecond]

\* str(e)
StrExc(e) == e.msg

\* `except Exception` matches e
ExceptExceptionNarrow(e) == e.type = "ConnectionError"

ExceptException(e) == e.type \in ExceptionClasses

\* response.content if hasattr(response, 'content') else str(response)
ContentOfIgnoresAttr(response) == response.str

ContentOf(response) ==
    IF response.has_content THEN response.content ELSE response.str

\* str() of a one-key findings dict, as the f-string embeds it
DictStr(d) ==
    LET k == CHOOSE key \in DOMAIN d : TRUE
    IN  "{'" \o k \o "': '" \o d[k] \o "'}"

StructurePrompt(text) == [template |-> "structure_prompt", contract_text |-> text]

LegalPrompt(text) == [template |-> "legal_prompt", contract_text |-> text]

NegotiationPrompt(text) == [template |-> "negotiation_prompt", contract_text |-> text]

ConsolidationPromptLegalTwice(name, s, l, n) ==
    [template |-> "consolidation_prompt",
     contract_name |-> name,
     structure_findings |-> DictStr(s.findings),
     legal_findings |-> DictStr(l.findings),
     negotiation_findings |-> DictStr(l.findings)]

ConsolidationPrompt(name, s, l, n) ==
    [template |-> "consolidation_prompt",
     contract_name |-> name,
     structure_findings |-> DictStr(s.findings),
     legal_findings |-> DictStr(l.findings),
     negotiation_findings |-> DictStr(n.findings)]

----------------------------------------------------------------------------
(* AgentResponse records built by analyze_contract *)

AgentResponse(name, ts, type, findings, recs, risk, conf) ==
    [agent_name |-> name, timestamp |-> ts, analysis_type |-> type,
     findings |-> findings, recommendations |-> recs, risk_level |-> risk,
     confidence_score |-> conf]

StructureSuccess(response, ts) ==
    AgentResponse("ContractStructureAgent", ts, "structural_analysis",
                  [raw_response |-> ContentOf(response)], <<>>, "PENDING", 80)

StructureFailure(e, ts) ==
    AgentResponse("ContractStructureAgent", ts, "structural_analysis",
                  [error |-> StrExc(e)], <<"Manual structure review required">>,
                  "HIGH", 30)

LegalSuccess(response, ts) ==
    AgentResponse("LegalFrameworkAgent", ts, "legal_compliance",
                  [raw_response |-> ContentOf(response)], <<>>, "PENDING", 85)

LegalFailure(e, ts) ==
    AgentResponse("LegalFrameworkAgent", ts, "legal_compliance",
                  [error |-> StrExc(e)],
                  <<"Legal review by qualified attorney required">>, "HIGH", 20)

NegotiationSuccess(response, ts) ==
    AgentResponse("NegotiationAgent", ts, "negotiation_strategy",
                  [raw_response |-> ContentOf(response)], <<>>, "PENDING", 75)

\* the negotiation placeholder with the severity of the other two stages
NegotiationFailureHigh(e, ts) ==
    AgentResponse("NegotiationAgent", ts, "negotiation_strategy",
                  [error |-> StrExc(e)],
                  <<"Manual negotiation strategy development required">>,
                  "HIGH", 40)

NegotiationFailure(e, ts) ==
    AgentResponse("NegotiationAgent", ts, "negotiation_strategy",
                  [error |-> StrExc(e)],
                  <<"Manual negotiation strategy development required">>,
                  "MEDIUM", 40)

(* ContractAnalysisResult records built by analyze_contract *)

ContractInfo(name, text, ts) ==
    [name |-> name, length |-> Len(text), analysis_date |-> ts]

FullResult(name, text, responses, response, ts) ==
    [contract_info |-> ContractInfo(name, text, ts),
     agent_responses |-> responses,
     consolidated_findings |-> [manager_synthesis |-> ContentOf(response)],
     priority_recommendations |-> <<>>,
     risk_assessment |-> <<>>,
     traceability_map |->
        [structure_agent |-> "ContractStructureAgent",
         legal_agent |-> "LegalFrameworkAgent",
         negotiation_agent |-> "NegotiationAgent",
         manager_agent |-> "ContractAnalysisManager"],
     analysis_timestamp |-> ts]

\* the partial result with the risk_assessment of the full one
PartialResultNoRisk(name, text, responses, e, ts) ==
    [contract_info |-> ContractInfo(name, text, ts),
     agent_responses |-> responses,
     consolidated_findings |->
        [error |-> "Manager consolidation failed: " \o StrExc(e)],
     priority_recommendations |-> <<"Manual review and consolidation required">>,
     risk_assessment |-> <<>>,
     traceability_map |->
        [structure_agent |-> "ContractStructureAgent",
         legal_agent |-> "LegalFrameworkAgent",
         negotiation_agent |-> "NegotiationAgent",
         manager_agent |-> "ContractAnalysisManager (FAILED)"],
     analysis_timestamp |-> ts]

\* the partial result with the traceability_map of the full one
PartialResultNoSuffix(name, text, responses, e, ts) ==
    [contract_info |-> ContractInfo(name, text, ts),
     agent_responses |-> responses,
     consolidated_findings |->
        [error |-> "Manager consolidation failed: " \o StrExc(e)],
     priority_recommendations |-> <<"Manual review and consolidation required">>,
     risk_assessment |-> [overall_risk |-> "UNKNOWN - Analysis incomplete"],
     traceability_map |->
        [structure_agent |-> "ContractStructureAgent",
         legal_agent |-> "LegalFrameworkAgent",
         negotiation_agent |-> "NegotiationAgent",
         manager_agent |-> "ContractAnalysisManager"],
     analysis_timestamp |-> ts]

PartialResult(name, text, responses, e, ts) ==
    [contract_info |-> ContractInfo(name, text, ts),
     agent_responses |-> responses,
     consolidated_findings |->
        [error |-> "Manager consolidation failed: " \o StrExc(e)],
     priority_recommendations |-> <<"Manual review and consolidation required">>,
     risk_assessment |-> [overall_risk |-> "UNKNOWN - Analysis incomplete"],
     traceability_map |->
        [structure_agent |-> "ContractStructureAgent",
         legal_agent |-> "LegalFrameworkAgent",
         negotiation_agent |-> "NegotiationAgent",
         manager_agent |-> "ContractAnalysisManager (FAILED)"],
     analysis_timestamp |-> ts]

----------------------------------------------------------------------------
(* The hosted-model side: run() calls received, in order *)

\* agent.run(prompt) is entered
Issue(agent, prompt) ==
    Append(calls, [agent |-> agent, prompt |-> prompt,
                   outcome |-> "pending", value |-> None])

\* the pending run() call ends with `outcome`
Settle(outcome, value) ==
    [calls EXCEPT ![Len(calls)] = [@ EXCEPT !.outcome = outcome, !.value = value]]

----------------------------------------------------------------------------
(* analyze_contract *)

AnalyzeContract(text, name) ==
    /\ pc = "idle"
    /\ pc' = "structure"
    /\ contract_text' = text
    /\ contract_name' = name
    /\ agent_responses' = <<>>
    /\ UNCHANGED <<structure_analysis, legal_analysis, negotiation_analysis,
                   consolidation_prompt, result, propagated, calls, clock>>
    /\ UNCHANGED <<pdfVars, saveVars, uiVars>>

\* an exception no handler of analyze_contract matches leaves the function
Propagate(e, dt) ==
    /\ pc' = "raised"
    /\ propagated' = e
    /\ calls' = Settle("raised", e)
    /\ clock' = clock + dt
    /\ UNCHANGED <<contract_text, contract_name, agent_responses,
                   structure_analysis, legal_analysis, negotiation_analysis,
                   consolidation_prompt, result>>
    /\ UNCHANGED <<pdfVars, saveVars, uiVars>>

StructureCall ==
    /\ pc = "structure"
    /\ pc' = "structure_run"
    /\ calls' = Issue("structure", StructurePrompt(contract_text))
    /\ UNCHANGED <<contract_text, contract_name, agent_responses,
                   structure_analysis, legal_analysis, negotiation_analysis,
                   consolidation_prompt, result, propagated, clock>>
    /\ UNCHANGED <<pdfVars, saveVars, uiVars>>

StructureReturn(response, dt) ==
    /\ pc = "structure_run"
    /\ clock + dt <= MaxClock
    /\ clock' = clock + dt
    /\ calls' = Settle("returned", response)
    /\ structure_analysis' = StructureSuccess(response, IsoFormat(clock'))
    /\ agent_responses' = Append(agent_responses, structure_analysis')
    /\ pc' = "legal"
    /\ UNCHANGED <<contract_text, contract_name, legal_analysis,
                   negotiation_analysis, consolidation_prompt, result, propagated>>
    /\ UNCHANGED <<pdfVars, saveVars, uiVars>>

\* the structure except block without its agent_responses.append
StructureExceptNoAppend(e, dt) ==
    /\ pc = "structure_run"
    /\ clock + dt <= MaxClock
    /\ clock' = clock + dt
    /\ calls' = Settle("raised", e)
    /\ structure_analysis' = StructureFailure(e, IsoFormat(clock'))
    /\ pc' = "legal"
    /\ UNCHANGED <<contract_text, contract_name, agent_responses, legal_analysis,
                   negotiation_analysis, consolidation_prompt, result, propagated>>
    /\ UNCHANGED <<pdfVars, saveVars, uiVars>>

\* the structure except block calling the agent again
StructureExceptRetry(e, dt) ==
    /\ pc = "structure_run"
    /\ clock + dt <= MaxClock
    /\ clock' = clock + dt
    /\ calls' = Settle("raised", e)
    /\ pc' = "structure"
    /\ UNCHANGED <<contract_text, contract_name, agent_responses,
                   structure_analysis, legal_analysis, negotiation_analysis,
                   consolidation_prompt, result, propagated>>
    /\ UNCHANGED <<pdfVars, saveVars, uiVars>>

StructureExcept(e, dt) ==
    /\ pc = "structure_run"
    /\ clock + dt <= MaxClock
    /\ IF ExceptException(e)
       THEN /\ clock' = clock + dt
            /\ calls' = Settle("raised", e)
            /\ structure_analysis' = StructureFailure(e, IsoFormat(clock'))
            /\ agent_responses' = Append(agent_responses, structure_analysis')
            /\ pc' = "legal"
            /\ UNCHANGED <<contract_text, contract_name, legal_analysis,
                           negotiation_analysis, consolidation_prompt, result,
                           propagated>>
            /\ UNCHANGED <<pdfVars, saveVars, uiVars>>
       ELSE Propagate(e, dt)

LegalCall ==
    /\ pc = "legal"
    /\ pc' = "legal_run"
    /\ calls' = Issue("legal", LegalPrompt(contract_text))
    /\ UNCHANGED <<contract_text, contract_name, agent_responses,
                   structure_analysis, legal_analysis, negotiation_analysis,
                   consolidation_prompt, result, propagated, clock>>
    /\ UNCHANGED <<pdfVars, saveVars, uiVars>>

LegalReturn(response, dt) ==
    /\ pc = "legal_run"
    /\ clock + dt <= MaxClock
    /\ clock' = clock + dt
    /\ calls' = Settle("returned", response)
    /\ legal_analysis' = LegalSuccess(response, IsoFormat(clock'))
    /\ agent_responses' = Append(agent_responses, legal_analysis')
    /\ pc' = "negotiation"
    /\ UNCHANGED <<contract_text, contract_name, structure_analysis,
                   negotiation_analysis, consolidation_prompt, result, propagated>>
    /\ UNCHANGED <<pdfVars, saveVars, uiVars>>

\* the legal except block returning a partial result at once
LegalExceptReturnsEarly(e, dt) ==
    /\ pc = "legal_run"
    /\ clock + dt <= MaxClock
    /\ clock' = clock + dt
    /\ calls' = Settle("raised", e)
    /\ legal_analysis' = LegalFailure(e, IsoFormat(clock'))
    /\ agent_responses' = Append(agent_responses, legal_analysis')
    /\ result' = PartialResult(contract_name, contract_text, agent_responses',
                               e, IsoFormat(clock'))
    /\ pc' = "done"
    /\ UNCHANGED <<contract_text, contract_name, structure_analysis,
                   negotiation_analysis, consolidation_prompt, propagated>>
    /\ UNCHANGED <<pdfVars, saveVars, uiVars>>

LegalExcept(e, dt) ==
    /\ pc = "legal_run"
    /\ clock + dt <= MaxClock
    /\ IF ExceptException(e)
       THEN /\ clock' = clock + dt
            /\ calls' = Settle("raised", e)
            /\ legal_analysis' = LegalFailure(e, IsoFormat(clock'))
            /\ agent_responses' = Append(agent_responses, legal_analysis')
            /\ pc' = "negotiation"
            /\ UNCHANGED <<contract_text, contract_name, structure_analysis,
                           negotiation_analysis, consolidation_prompt, result,
                           propagated>>
            /\ UNCHANGED <<pdfVars, saveVars, uiVars>>
       ELSE Propagate(e, dt)

NegotiationCall ==
    /\ pc = "negotiation"
    /\ pc' = "negotiation_run"
    /\ calls' = Issue("negotiation", NegotiationPrompt(contract_text))
    /\ UNCHANGED <<contract_text, contract_name, agent_responses,
                   structure_analysis, legal_analysis, negotiation_analysis,
                   consolidation_prompt, result, propagated, clock>>
    /\ UNCHANGED <<pdfVars, saveVars, uiVars>>

NegotiationReturn(response, dt) ==
    /\ pc = "negotiation_run"
    /\ clock + dt <= MaxClock
    /\ clock' = clock + dt
    /\ calls' = Settle("returned", response)
    /\ negotiation_analysis' = NegotiationSuccess(response, IsoFormat(clock'))
    /\ agent_responses' = Append(agent_responses, negotiation_analysis')
    /\ pc' = "manager"
    /\ UNCHANGED <<contract_text, contract_name, structure_analysis,
                   legal_analysis, consolidation_prompt, result, propagated>>
    /\ UNCHANGED <<pdfVars, saveVars, uiVars>>

NegotiationExcept(e, dt) ==
    /\ pc = "negotiation_run"
    /\ clock + dt <= MaxClock
    /\ IF ExceptException(e)
       THEN /\ clock' = clock + dt
            /\ calls' = Settle("raised", e)
            /\ negotiation_analysis' = NegotiationFailure(e, IsoFormat(clock'))
            /\ agent_responses' = Append(agent_responses, negotiation_analysis')
            /\ pc' = "manager"
            /\ UNCHANGED <<contract_text, contract_name, structure_analysis,
                           legal_analysis, consolidation_prompt, result,
                           propagated>>
            /\ UNCHANGED <<pdfVars, saveVars, uiVars>>
       ELSE Propagate(e, dt)

ManagerCall ==
    /\ pc = "manager"
    /\ pc' = "manager_run"
    /\ consolidation_prompt' =
          ConsolidationPrompt(contract_name, structure_analysis,
                              legal_analysis, negotiation_analysis)
    /\ calls' = Issue("manager", consolidation_prompt')
    /\ UNCHANGED <<contract_text, contract_name, agent_responses,
                   structure_analysis, legal_analysis, negotiation_analysis,
                   result, propagated, clock>>
    /\ UNCHANGED <<pdfVars, saveVars, uiVars>>

ManagerReturn(response, dt) ==
    /\ pc = "manager_run"
    /\ clock + dt <= MaxClock
    /\ clock' = clock + dt
    /\ calls' = Settle("returned", response)
    /\ result' = FullResult(contract_name, contract_text, agent_responses,
                            response, IsoFormat(clock'))
    /\ pc' = "done"
    /\ UNCHANGED <<contract_text, contract_name, agent_responses,
                   structure_analysis, legal_analysis, negotiation_analysis,
                   consolidation_prompt, propagated>>
    /\ UNCHANGED <<pdfVars, saveVars, uiVars>>

ManagerExcept(e, dt) ==
    /\ pc = "manager_run"
    /\ clock + dt <= MaxClock
    /\ IF ExceptException(e)
       THEN /\ clock' = clock + dt
            /\ calls' = Settle("raised", e)
            /\ result' = PartialResult(contract_name, contract_text,
                                       agent_responses, e, IsoFormat(clock'))
            /\ pc' = "done"
            /\ UNCHANGED <<contract_text, contract_name, agent_responses,
                           structure_analysis, legal_analysis,
                           negotiation_analysis, consolidation_prompt,
                           propagated>>
            /\ UNCHANGED <<pdfVars, saveVars, uiVars>>
       ELSE Propagate(e, dt)

----------------------------------------------------------------------------
(* Specification of the orchestrator *)

OrchInit ==
    /\ pc = "idle"
    /\ contract_text = <<>>    \* arguments: bound by the call
    /\ contract_name = <<>>
    /\ agent_responses = <<>>
    /\ structure_analysis = None
    /\ legal_analysis = None
    /\ negotiation_analysis = None
    /\ consolidation_prompt = None
    /\ result = None
    /\ propagated = None
    /\ calls = <<>>
    /\ clock = 0

PdfOff ==
    /\ pdf_pc = "off"
    /\ pdf_file = None
    /\ page_num = 0
    /\ text_content = <<>>
    /\ pdf_result = None
    /\ pdf_raised = None

\* nothing saved, no session
SaveOff ==
    /\ fs = [dirs |-> {}, readonly |-> {}, files |-> {}]
    /\ save_return = None
    /\ save_raised = None
    /\ saves = <<>>

\* a session before its first click
SessionOff ==
    /\ system = None
    /\ session_contract_text = None
    /\ session_contract_name = None
    /\ uploaded_file = None

UiOff ==
    /\ current_analysis = None
    /\ analysis_history = <<>>
    /\ ui_message = None
    /\ rendered = None
    /\ SessionOff

Init == OrchInit /\ PdfOff /\ SaveOff /\ UiOff

Next ==
    \/ \E text \in Texts, name \in Names : AnalyzeContract(text, name)
    \/ StructureCall
    \/ \E response \in Replies, dt \in 0..1 : StructureReturn(response, dt)
    \/ \E e \in Errors, dt \in 0..1 : StructureExcept(e, dt)
    \/ LegalCall
    \/ \E response \in Replies, dt \in 0..1 : LegalReturn(response, dt)
    \/ \E e \in Errors, dt \in 0..1 : LegalExcept(e, dt)
    \/ NegotiationCall
    \/ \E response \in Replies, dt \in 0..1 : NegotiationReturn(response, dt)
    \/ \E e \in Errors, dt \in 0..1 : NegotiationExcept(e, dt)
    \/ ManagerCall
    \/ \E response \in Replies, dt \in 0..1 : ManagerReturn(response, dt)
    \/ \E e \in Errors, dt \in 0..1 : ManagerExcept(e, dt)

Spec == Init /\ [][Next]_vars

\* each step of analyze_contract is taken once it can be: the function is
\* straight-line blocking code, and run() returns or raises
FairSpec == Spec /\ WF_vars(Next)

----------------------------------------------------------------------------
(* extract_text_from_pdf *)

\* a returned str
Text(chars) == [text |-> chars]

\* characters str.strip() removes
Whitespace == {" ", "\n", "\t"}

RECURSIVE LStrip(_)
LStrip(s) ==
    IF Len(s) > 0 /\ Head(s) \in Whitespace THEN LStrip(Tail(s)) ELSE s

RECURSIVE RStrip(_)
RStrip(s) ==
    IF Len(s) > 0 /\ s[Len(s)] \in Whitespace
    THEN RStrip(SubSeq(s, 1, Len(s) - 1))
    ELSE s

\* page_text.strip()
Strip(s) == RStrip(LStrip(s))

\* str(n) of a non-negative int
RECURSIVE DecimalStr(_)
DecimalStr(n) ==
    LET digit == <<"0", "1", "2", "3", "4", "5", "6", "7", "8", "9">>[(n % 10) + 1]
    IN  IF n < 10 THEN <<digit>> ELSE DecimalStr(n \div 10) \o <<digit>>

\* the marker numbered with the 0-based loop index
PageMarkerZeroBased(n) ==
    <<"-", "-", "-", " ", "P", "a", "g", "e", " ">>
       \o DecimalStr(n) \o <<" ", "-", "-", "-">>

\* f"--- Page {page_num + 1} ---"
PageMarker(n) ==
    <<"-", "-", "-", " ", "P", "a", "g", "e", " ">>
       \o DecimalStr(n + 1) \o <<" ", "-", "-", "-">>

\* "\n".join(lines)
RECURSIVE Join(_)
Join(lines) ==
    IF Len(lines) = 0 THEN <<>>
    ELSE IF Len(lines) = 1 THEN lines[1]
    ELSE lines[1] \o <<"\n">> \o Join(Tail(lines))

\* what open() or PdfReader() raises on a file that cannot be parsed
OpenError == [type |-> "PdfReadError", msg |-> "EOF marker not found"]

\* what page.extract_text() raises on a damaged page
PageError == [type |-> "ValueError", msg |-> "bad page"]

\* a page: extract_text() raises `error`, or returns `text`
Pages ==
    { [error |-> PageError, text |-> <<>>],
      [error |-> None, text |-> <<>>],
      [error |-> None, text |-> <<" ", "\n">>],
      [error |-> None, text |-> <<"x">>],
      [error |-> None, text |-> <<" ", "y">>] }

PageSeqs == UNION { [1..n -> Pages] : n \in 0..MaxPages }

\* the files pdf_path can name: a missing file has no content, a file that
\* does not open has no pages
PdfFiles ==
    { f \in [exists : BOOLEAN, readable : BOOLEAN,
             open_error : {None, OpenError}, pages : PageSeqs] :
        /\ ~f.exists => (~f.readable /\ f.open_error = None /\ f.pages = <<>>)
        /\ f.open_error # None => f.pages = <<>> }

\* an exception no handler of extract_text_from_pdf matches leaves the function
PdfPropagate(e) ==
    /\ pdf_pc' = "raised"
    /\ pdf_raised' = e
    /\ UNCHANGED <<pdf_file, page_num, text_content, pdf_result>>
    /\ UNCHANGED <<orchVars, saveVars, uiVars>>

PdfReturn(value) ==
    /\ pdf_pc' = "done"
    /\ pdf_result' = value
    /\ UNCHANGED <<pdf_file, page_num, text_content, pdf_raised>>
    /\ UNCHANGED <<orchVars, saveVars, uiVars>>

\* the checks before the page loop: existence, access, open, page count
PdfOpen ==
    /\ pdf_pc = "start"
    /\ IF ~pdf_file.exists THEN PdfReturn(None)
       ELSE IF ~pdf_file.readable THEN PdfReturn(None)
       ELSE IF pdf_file.open_error # None
            THEN IF ExceptException(pdf_file.open_error)
                 THEN PdfReturn(None)
                 ELSE PdfPropagate(pdf_file.open_error)
       ELSE IF Len(pdf_file.pages) = 0 THEN PdfReturn(None)
       ELSE /\ pdf_pc' = "loop"
            /\ page_num' = 0
            /\ text_content' = <<>>
            /\ UNCHANGED <<pdf_file, pdf_result, pdf_raised>>
            /\ UNCHANGED <<orchVars, saveVars, uiVars>>

\* one iteration of the page loop
PdfPage ==
    /\ pdf_pc = "loop"
    /\ page_num < Len(pdf_file.pages)
    /\ LET page == pdf_file.pages[page_num + 1]
       IN  IF page.error # None
           THEN IF ExceptException(page.error)
                THEN /\ page_num' = page_num + 1
                     /\ UNCHANGED <<pdf_pc, pdf_file, text_content, pdf_result,
                                    pdf_raised>>
                     /\ UNCHANGED <<orchVars, saveVars, uiVars>>
                ELSE PdfPropagate(page.error)
           ELSE /\ page_num' = page_num + 1
                /\ text_content' =
                      IF Len(Strip(page.text)) > 0
                      THEN text_content \o <<PageMarker(page_num), page.text>>
                      ELSE text_content
                /\ UNCHANGED <<pdf_pc, pdf_file, pdf_result, pdf_raised>>
                /\ UNCHANGED <<orchVars, saveVars, uiVars>>

\* the end of the page loop without the test for an empty text_content
PdfFinishNoEmptyCheck ==
    /\ pdf_pc = "loop"
    /\ page_num = Len(pdf_file.pages)
    /\ PdfReturn(Text(Join(text_content)))

\* the end of the page loop
PdfFinish ==
    /\ pdf_pc = "loop"
    /\ page_num = Len(pdf_file.pages)
    /\ IF Len(text_content) = 0
       THEN PdfReturn(None)
       ELSE PdfReturn(Text(Join(text_content)))

(* Specification of the extractor *)

PdfInit ==
    /\ pdf_pc = "start"
    /\ pdf_file \in PdfFiles
    /\ page_num = 0
    /\ text_content = <<>>
    /\ pdf_result = None
    /\ pdf_raised = None

InitPdf == OrchInit /\ PdfInit /\ SaveOff /\ UiOff

NextPdf == PdfOpen \/ PdfPage \/ PdfFinish

SpecPdf == InitPdf /\ [][NextPdf]_vars

----------------------------------------------------------------------------
(* Results handed to save_analysis_results and to the renderers *)

\* the reply and the exception the sample results are built from
SampleReply == [has_content |-> TRUE, content |-> "risk_level: HIGH", str |-> "RunResponse"]

SampleError == [type |-> "ConnectionError", msg |-> "timed out"]

\* what analyze_contract returns for `name` and `text` when stage i of
\* structure, legal, negotiation, manager returns iff ok[i]
AnalysisResult(name, text, ok) ==
    LET ts == IsoFormat(0)
        responses ==
            << IF ok[1] THEN StructureSuccess(SampleReply, ts)
                        ELSE StructureFailure(SampleError, ts),
               IF ok[2] THEN LegalSuccess(SampleReply, ts)
                        ELSE LegalFailure(SampleError, ts),
               IF ok[3] THEN NegotiationSuccess(SampleReply, ts)
                        ELSE NegotiationFailure(SampleError, ts) >>
    IN  IF ok[4] THEN FullResult(name, text, responses, SampleReply, ts)
                 ELSE PartialResult(name, text, responses, SampleError, ts)

Outcomes == [1..4 -> BOOLEAN]

\* a findings value json cannot encode (a content object that is no str)
ObjectValue == "<object>"

\* a result a caller assembled by hand around such a value
HandBuiltResult(name) ==
    [AnalysisResult(name, <<"a">>, [i \in 1..4 |-> TRUE])
        EXCEPT !.agent_responses[1].findings = [raw_response |-> ObjectValue]]

\* contract names of the saved results
AcmeName ==
    <<"A", "c", "m", "e", "/", "C", "o", ".", ":", " ", "N", "D", "A", "?">>

SaveNames == { AcmeName, <<"A", "/", "b">>, <<"A", "b">>, <<"?", " ", "N", "-", " ">> }

SaveInputs ==
    { AnalysisResult(AcmeName, <<"a">>, [i \in 1..4 |-> TRUE]),
      AnalysisResult(<<"A", "/", "b">>, <<"a">>, [i \in 1..4 |-> i = 2]),
      AnalysisResult(<<"A", "b">>, <<"a">>, [i \in 1..4 |-> FALSE]),
      AnalysisResult(<<"?", " ", "N", "-", " ">>, <<"a">>, [i \in 1..4 |-> i # 3]),
      HandBuiltResult(<<"A", "b">>) }

----------------------------------------------------------------------------
(* save_analysis_results *)

\* c.isalnum(), for the characters of the model
Alnum ==
    { "a", "b", "c", "d", "e", "f", "g", "h", "i", "j", "k", "l", "m",
      "n", "o", "p", "q", "r", "s", "t", "u", "v", "w", "x", "y", "z",
      "A", "B", "C", "D", "E", "F", "G", "H", "I", "J", "K", "L", "M",
      "N", "O", "P", "Q", "R", "S", "T", "U", "V", "W", "X", "Y", "Z",
      "0", "1", "2", "3", "4", "5", "6", "7", "8", "9" }

\* "".join(c for c in name if c.isalnum() or c in (' ', '-', '_'))
RECURSIVE KeepSafe(_)
KeepSafe(name) ==
    IF Len(name) = 0 THEN <<>>
    ELSE (IF Head(name) \in Alnum \/ Head(name) \in {" ", "-", "_"}
          THEN <<Head(name)>> ELSE <<>>) \o KeepSafe(Tail(name))

\* contract_name_clean without the final strip()
CleanNameNoStrip(name) == KeepSafe(name)

\* contract_name_clean
CleanName(name) == Strip(KeepSafe(name))

\* datetime.now().strftime("%Y%m%d_%H%M%S"); tick 0 is 2026-11-03 00:00:00
StrfTime(t) ==
    LET sec == t \div TicksPerSecond
    IN  <<"2", "0", "2", "6", "1", "1", "0", "3", "_", "0", "0", "0", "0">>
           \o (IF sec < 10 THEN <<"0">> ELSE <<>>) \o DecimalStr(sec)

\* f"contract_analysis_{contract_name_clean}_{timestamp}.json"
FileName(clean, stamp) ==
    <<"c", "o", "n", "t", "r", "a", "c", "t", "_",
      "a", "n", "a", "l", "y", "s", "i", "s", "_">>
       \o clean \o <<"_">> \o stamp \o <<".", "j", "s", "o", "n">>

\* Path(output_dir) / filename; a directory is the sequence of its components
FilePath(dir, filename) == [dir |-> dir, name |-> filename]

\* the default of the parameter output_dir
DefaultOutputDir == <<"analysis_results">>

\* output directories handed to save_analysis_results
OutputDirs == { DefaultOutputDir, <<"out", "run1">> }

\* the directory a path lies in; <<>> is the working directory
Parent(dir) == SubSeq(dir, 1, Len(dir) - 1)

\* Path(output_dir).mkdir(exist_ok=True): the error raised, the file system left
Mkdir(f, dir) ==
    IF dir \in f.dirs THEN [error |-> None, fs |-> f]
    ELSE IF Parent(dir) # <<>> /\ Parent(dir) \notin f.dirs
         THEN [error |-> [type |-> "FileNotFoundError", msg |-> "No such file or directory"],
               fs |-> f]
    ELSE [error |-> None, fs |-> [f EXCEPT !.dirs = @ \cup {dir}]]

\* the file system with `content` as the content of the file at `path`
WriteFile(f, path, content) ==
    [f EXCEPT !.files =
        { x \in @ : x.path # path } \cup { [path |-> path, content |-> content] }]

\* open(filepath, 'w'): the error raised, the file system left (file emptied)
OpenW(f, path) ==
    IF path.dir \in f.readonly
    THEN [error |-> [type |-> "PermissionError", msg |-> "Permission denied"],
          fs |-> f]
    ELSE [error |-> None, fs |-> WriteFile(f, path, [json |-> "incomplete"])]

(* JSON documents: json.dump writes them, json.load reads them *)

JStr(v) == [json |-> "string", value |-> v]

JNum(text) == [json |-> "number", text |-> text]

JArr(items) == [json |-> "array", items |-> items]

JObj(members) == [json |-> "object", members |-> members]

\* float.__repr__ of a score given in hundredths, as formatted with one decimal
FloatReprOneDecimal(h) ==
    DecimalStr(h \div 100) \o <<".">> \o DecimalStr((h % 100) \div 10)

\* float.__repr__ of a score given in hundredths
FloatRepr(h) ==
    DecimalStr(h \div 100) \o <<".">> \o
       (IF (h % 100) % 10 = 0 THEN DecimalStr((h % 100) \div 10)
        ELSE DecimalStr((h % 100) \div 10) \o DecimalStr(h % 10))

\* int() of the digits of `text`
RECURSIVE ParseInt(_)
ParseInt(text) ==
    IF Len(text) = 0 THEN 0
    ELSE LET last == CHOOSE d \in 0..9 : DecimalStr(d) = <<text[Len(text)]>>
         IN  10 * ParseInt(SubSeq(text, 1, Len(text) - 1)) + last

\* float() of `text`, in hundredths
ParseFloat(text) ==
    LET dot == CHOOSE i \in 1..Len(text) : text[i] = "."
        frac == SubSeq(text, dot + 1, Len(text))
    IN  100 * ParseInt(SubSeq(text, 1, dot - 1))
           + (IF Len(frac) = 1 THEN 10 * ParseInt(frac)
              ELSE ParseInt(SubSeq(frac, 1, 2)))

\* dataclasses.asdict of an AgentResponse, then its JSON encoding
DumpResponse(resp) ==
    JObj([agent_name |-> JStr(resp.agent_name),
          timestamp |-> JStr(resp.timestamp),
          analysis_type |-> JStr(resp.analysis_type),
          findings |-> JObj([k \in DOMAIN resp.findings |-> JStr(resp.findings[k])]),
          recommendations |->
             JArr([i \in 1..Len(resp.recommendations) |-> JStr(resp.recommendations[i])]),
          risk_level |-> JStr(resp.risk_level),
          confidence_score |-> JNum(FloatRepr(resp.confidence_score))])

\* json.dump(asdict(result), f, indent=2, ensure_ascii=False)
JsonDump(r) ==
    JObj([contract_info |->
             JObj([name |-> JStr(r.contract_info.name),
                   length |-> JNum(DecimalStr(r.contract_info.length)),
                   analysis_date |-> JStr(r.contract_info.analysis_date)]),
          agent_responses |->
             JArr([i \in 1..Len(r.agent_responses) |-> DumpResponse(r.agent_responses[i])]),
          consolidated_findings |->
             JObj([k \in DOMAIN r.consolidated_findings |->
                      JStr(r.consolidated_findings[k])]),
          priority_recommendations |->
             JArr([i \in 1..Len(r.priority_recommendations) |->
                      JStr(r.priority_recommendations[i])]),
          risk_assessment |->
             JObj([k \in DOMAIN r.risk_assessment |-> JStr(r.risk_assessment[k])]),
          traceability_map |->
             JObj([k \in DOMAIN r.traceability_map |-> JStr(r.traceability_map[k])]),
          analysis_timestamp |-> JStr(r.analysis_timestamp)])

\* json.load of a document
RECURSIVE JsonLoad(_)
JsonLoad(doc) ==
    CASE doc.json = "string" -> doc.value
      [] doc.json = "number" ->
            IF \E i \in 1..Len(doc.text) : doc.text[i] = "."
            THEN ParseFloat(doc.text) ELSE ParseInt(doc.text)
      [] doc.json = "array" -> [i \in 1..Len(doc.items) |-> JsonLoad(doc.items[i])]
      [] doc.json = "object" -> [k \in DOMAIN doc.members |-> JsonLoad(doc.members[k])]

\* json.dump accepts every value of the result
Serializable(r) ==
    \A i \in 1..Len(r.agent_responses) :
        \A k \in DOMAIN r.agent_responses[i].findings :
            r.agent_responses[i].findings[k] # ObjectValue

\* the body of the try block: the first error raised, the file system left,
\* the path computed
SaveAttempt(r, dir, f, now) ==
    LET mk == Mkdir(f, dir)
        path == FilePath(dir, FileName(CleanName(r.contract_info.name), StrfTime(now)))
        op == OpenW(mk.fs, path)
        dumpError ==
            IF Serializable(r) THEN None
            ELSE [type |-> "TypeError", msg |-> "Object is not JSON serializable"]
    IN  IF mk.error # None THEN [error |-> mk.error, fs |-> mk.fs, path |-> path]
        ELSE IF op.error # None THEN [error |-> op.error, fs |-> op.fs, path |-> path]
        ELSE IF dumpError # None THEN [error |-> dumpError, fs |-> op.fs, path |-> path]
        ELSE [error |-> None, fs |-> WriteFile(op.fs, path, JsonDump(r)), path |-> path]

\* save_analysis_results(r, dir), called by `caller`: try block and except block
Save(r, dir, caller) ==
    LET a == SaveAttempt(r, dir, fs, clock)
        ret == IF a.error = None THEN [path |-> a.path] ELSE None
        escapes == a.error # None /\ ~ExceptException(a.error)
    IN  /\ fs' = a.fs
        /\ save_return' = IF escapes THEN save_return ELSE ret
        /\ save_raised' = IF escapes THEN a.error ELSE save_raised
        /\ saves' = Append(saves, [result |-> r, dir |-> dir,
                                   caller |-> caller, at |-> clock,
                                   dir_existed |-> dir \in fs.dirs,
                                   error |-> a.error,
                                   ret |-> IF escapes THEN None ELSE ret,
                                   escaped |-> escapes])

\* a caller other than the web page saves a result
SaveAnalysisResults(r, dir) ==
    /\ Len(saves) < MaxSaves
    /\ Save(r, dir, "script")
    /\ UNCHANGED <<orchVars, pdfVars, uiVars>>

\* the "Save to File" button of the export tab, reporting as the save did not
SaveToFileAlwaysSuccess ==
    /\ current_analysis # None
    /\ Len(saves) < MaxSaves
    /\ Save(current_analysis, DefaultOutputDir, "web")
    /\ ui_message' = [kind |-> "success", path |-> saves'[Len(saves')].ret]
    /\ UNCHANGED <<orchVars, pdfVars, current_analysis, analysis_history, rendered,
                   sessionVars>>

\* the "Save to File" button of the export tab
SaveToFile ==
    /\ current_analysis # None
    /\ Len(saves) < MaxSaves
    /\ Save(current_analysis, DefaultOutputDir, "web")
    /\ ui_message' =
          IF save_raised' # None THEN ui_message
          ELSE IF save_return' # None
               THEN [kind |-> "success", path |-> save_return']
               ELSE [kind |-> "error", path |-> None]
    /\ UNCHANGED <<orchVars, pdfVars, current_analysis, analysis_history, rendered,
                   sessionVars>>

\* time passes
Tick ==
    /\ clock < MaxClock
    /\ clock' = clock + 1
    /\ UNCHANGED <<pc, contract_text, contract_name, agent_responses,
                   structure_analysis, legal_analysis, negotiation_analysis,
                   consolidation_prompt, result, propagated, calls>>
    /\ UNCHANGED <<pdfVars, saveVars, uiVars>>

(* Specification of saving *)

\* the output directory is absent, present, or present and not writable
InitialFs ==
    { [dirs |-> {}, readonly |-> {}, files |-> {}],
      [dirs |-> {DefaultOutputDir}, readonly |-> {}, files |-> {}],
      [dirs |-> {DefaultOutputDir}, readonly |-> {DefaultOutputDir}, files |-> {}] }

InitSave ==
    /\ OrchInit /\ PdfOff
    /\ fs \in InitialFs
    /\ save_return = None
    /\ save_raised = None
    /\ saves = <<>>
    /\ current_analysis \in SaveInputs
    /\ analysis_history = <<>>
    /\ ui_message = None
    /\ rendered = None
    /\ SessionOff

NextSave ==
    \/ \E r \in SaveInputs, dir \in OutputDirs : SaveAnalysisResults(r, dir)
    \/ SaveToFile
    \/ Tick

SpecSave == InitSave /\ [][NextSave]_vars

----------------------------------------------------------------------------
(* Renderers: the console report and the pages of the web application.    *)
(* A rendering is a record of what is printed or drawn; the emoji that    *)
(* lead the labels are left out.                                          *)

\* key in d, for a dict d
HasKey(d, key) == key \in DOMAIN d

\* traceability_map.items(), in insertion order
TraceRoles == <<"structure_agent", "legal_agent", "negotiation_agent", "manager_agent">>

\* role.replace('_', ' ').title()
RoleTitle(role) ==
    CASE role = "structure_agent"   -> "Structure Agent"
      [] role = "legal_agent"       -> "Legal Agent"
      [] role = "negotiation_agent" -> "Negotiation Agent"
      [] role = "manager_agent"     -> "Manager Agent"

\* "FAILED" in agent_name, over the agent names analyze_contract writes
ContainsFailed(agent_name) ==
    CASE agent_name = "ContractStructureAgent"           -> FALSE
      [] agent_name = "LegalFrameworkAgent"              -> FALSE
      [] agent_name = "NegotiationAgent"                 -> FALSE
      [] agent_name = "ContractAnalysisManager"          -> FALSE
      [] agent_name = "ContractAnalysisManager (FAILED)" -> TRUE

\* agent_name.replace("Agent", "")
WithoutAgent(agent_name) ==
    CASE agent_name = "ContractStructureAgent" -> "ContractStructure"
      [] agent_name = "LegalFrameworkAgent"    -> "LegalFramework"
      [] agent_name = "NegotiationAgent"       -> "Negotiation"
      [] OTHER                                 -> agent_name

\* analysis_type.replace('_', ' ').title()
TypeTitle(analysis_type) ==
    CASE analysis_type = "structural_analysis"  -> "Structural Analysis"
      [] analysis_type = "legal_compliance"     -> "Legal Compliance"
      [] analysis_type = "negotiation_strategy" -> "Negotiation Strategy"

\* the status the console prints for a traceability entry
ConsoleStatus(r, agent_name) ==
    IF \E k \in 1..Len(r.agent_responses) :
          /\ r.agent_responses[k].agent_name = agent_name
          /\ \/ HasKey(r.agent_responses[k].findings, "error")
             \/ ContainsFailed(agent_name)
    THEN "FAILED"
    ELSE "COMPLETED"

\* the status column of the web traceability table
WebStatus(agent_name) ==
    IF ContainsFailed(agent_name) THEN "Failed" ELSE "Completed"

\* the manager block of the console report and of the overview tab
Consolidated(r) ==
    IF ~HasKey(r.consolidated_findings, "error")
    THEN [synthesis |-> r.consolidated_findings.manager_synthesis]
    ELSE [error |-> r.consolidated_findings.error]

\* the findings block of one response
FindingsShown(resp) ==
    IF ~HasKey(resp.findings, "error")
    THEN [findings |-> resp.findings.raw_response]
    ELSE [error |-> resp.findings.error]

\* display_analysis_results of the console
ConsoleReport(r) ==
    [view |-> "console",
     contract |-> r.contract_info.name,
     analyzed |-> r.contract_info.analysis_date,
     length |-> r.contract_info.length,
     trace |-> [k \in 1..Len(TraceRoles) |->
                  [role |-> RoleTitle(TraceRoles[k]),
                   agent |-> r.traceability_map[TraceRoles[k]],
                   status |-> ConsoleStatus(r, r.traceability_map[TraceRoles[k]])]],
     responses |-> [k \in 1..Len(r.agent_responses) |->
                  [agent_name |-> r.agent_responses[k].agent_name,
                   analysis_type |-> r.agent_responses[k].analysis_type,
                   timestamp |-> r.agent_responses[k].timestamp,
                   risk_level |-> r.agent_responses[k].risk_level,
                   confidence |-> r.agent_responses[k].confidence_score,
                   recommendations |-> r.agent_responses[k].recommendations]],
     consolidated |-> Consolidated(r),
     summaries |-> IF HasKey(r.consolidated_findings, "error")
                   THEN [k \in 1..Len(r.agent_responses) |->
                            FindingsShown(r.agent_responses[k])]
                   ELSE <<>>]

\* sum of the confidence scores of responses 1..k, in hundredths
RECURSIVE SumConfidence(_, _)
SumConfidence(responses, k) ==
    IF k = 0 THEN 0
    ELSE SumConfidence(responses, k - 1) + responses[k].confidence_score

\* the overall risk of the metrics row with MEDIUM tested before HIGH
OverallRiskMediumFirst(r) ==
    LET risk_levels == SelectSeq([k \in 1..Len(r.agent_responses) |->
                                     r.agent_responses[k].risk_level],
                                 LAMBDA level : level # "PENDING")
        among(level) == \E k \in 1..Len(risk_levels) : risk_levels[k] = level
    IN  IF Len(risk_levels) > 0
        THEN IF among("MEDIUM") THEN "MEDIUM"
             ELSE IF among("HIGH") THEN "HIGH" ELSE "LOW"
        ELSE "UNKNOWN"

\* the overall risk of the metrics row
OverallRisk(r) ==
    LET risk_levels == SelectSeq([k \in 1..Len(r.agent_responses) |->
                                     r.agent_responses[k].risk_level],
                                 LAMBDA level : level # "PENDING")
        among(level) == \E k \in 1..Len(risk_levels) : risk_levels[k] = level
    IN  IF Len(risk_levels) > 0
        THEN IF among("HIGH") THEN "HIGH"
             ELSE IF among("MEDIUM") THEN "MEDIUM" ELSE "LOW"
        ELSE "UNKNOWN"

\* create_analysis_metrics; the average is kept as sum and count
AnalysisMetrics(r) ==
    [view |-> "metrics",
     length |-> r.contract_info.length,
     success_agents |-> Cardinality({ k \in 1..Len(r.agent_responses) :
                            ~HasKey(r.agent_responses[k].findings, "error") }),
     total_agents |-> Len(r.agent_responses),
     confidence_sum |-> SumConfidence(r.agent_responses, Len(r.agent_responses)),
     overall_risk |-> OverallRisk(r),
     risk_color |-> IF OverallRisk(r) = "HIGH" THEN "red"
                    ELSE IF OverallRisk(r) = "MEDIUM" THEN "orange" ELSE "normal"]

\* display_agent_responses
AgentDetails(r) ==
    [view |-> "agent_details",
     expanders |-> [k \in 1..Len(r.agent_responses) |->
        [title |-> <<r.agent_responses[k].agent_name,
                     TypeTitle(r.agent_responses[k].analysis_type)>>,
         expanded |-> k = 1,
         timestamp |-> r.agent_responses[k].timestamp,
         risk_color |-> IF r.agent_responses[k].risk_level = "HIGH" THEN "red"
                        ELSE IF r.agent_responses[k].risk_level = "MEDIUM"
                             THEN "yellow" ELSE "green",
         risk_level |-> r.agent_responses[k].risk_level,
         confidence |-> r.agent_responses[k].confidence_score,
         shown |-> FindingsShown(r.agent_responses[k]),
         recommendations |-> r.agent_responses[k].recommendations]]]

\* risk_mapping.get(level, 0)
RiskScore(level) ==
    CASE level = "LOW"    -> 1
      [] level = "MEDIUM" -> 2
      [] level = "HIGH"   -> 3
      [] OTHER            -> 0

\* create_risk_visualization and the confidence bars beside it
RiskVisualization(r) ==
    [view |-> "visualizations",
     agents |-> [k \in 1..Len(r.agent_responses) |->
                    WithoutAgent(r.agent_responses[k].agent_name)],
     risk_scores |-> [k \in 1..Len(r.agent_responses) |->
                    RiskScore(r.agent_responses[k].risk_level)],
     confidences |-> [k \in 1..Len(r.agent_responses) |->
                    r.agent_responses[k].confidence_score]]

\* the overview tab: manager synthesis and traceability table
Overview(r) ==
    [view |-> "overview",
     consolidated |-> Consolidated(r),
     trace |-> [k \in 1..Len(TraceRoles) |->
                  [role |-> RoleTitle(TraceRoles[k]),
                   agent |-> r.traceability_map[TraceRoles[k]],
                   status |-> WebStatus(r.traceability_map[TraceRoles[k]])]]]

\* json.dumps(result.__dict__, default=str): the responses are no dicts here,
\* each is written as the string str() gives for it
DownloadJson(r) ==
    JObj([contract_info |->
             JObj([name |-> JStr(r.contract_info.name),
                   length |-> JNum(DecimalStr(r.contract_info.length)),
                   analysis_date |-> JStr(r.contract_info.analysis_date)]),
          agent_responses |->
             JArr([k \in 1..Len(r.agent_responses) |-> JStr(r.agent_responses[k])]),
          consolidated_findings |-> JStr(r.consolidated_findings),
          priority_recommendations |->
             JArr([k \in 1..Len(r.priority_recommendations) |->
                      JStr(r.priority_recommendations[k])]),
          risk_assessment |-> JStr(r.risk_assessment),
          traceability_map |-> JStr(r.traceability_map),
          analysis_timestamp |-> JStr(r.analysis_timestamp)])

\* the export tab next to the save button
Export(r) == [view |-> "export", data |-> DownloadJson(r), at |-> StrfTime(clock)]

\* a renderer draws, and assigns nothing else
Show(rendering) ==
    /\ rendered' = rendering
    /\ UNCHANGED <<current_analysis, analysis_history, ui_message, sessionVars>>
    /\ UNCHANGED <<orchVars, pdfVars, saveVars>>

DisplayAnalysisResultsConsole ==
    /\ current_analysis # None
    /\ Show(ConsoleReport(current_analysis))

CreateAnalysisMetrics ==
    /\ current_analysis # None
    /\ Show(AnalysisMetrics(current_analysis))

DisplayAgentResponses ==
    /\ current_analysis # None
    /\ Show(AgentDetails(current_analysis))

\* the chart built by shortening the agent names in the responses themselves
CreateRiskVisualizationInPlace ==
    /\ current_analysis # None
    /\ rendered' = RiskVisualization(current_analysis)
    /\ current_analysis' =
          [current_analysis EXCEPT !.agent_responses =
              [k \in 1..Len(@) |->
                  [@[k] EXCEPT !.agent_name = WithoutAgent(@)]]]
    /\ UNCHANGED <<analysis_history, ui_message, sessionVars>>
    /\ UNCHANGED <<orchVars, pdfVars, saveVars>>

CreateRiskVisualization ==
    /\ current_analysis # None
    /\ Show(RiskVisualization(current_analysis))

OverviewTab ==
    /\ current_analysis # None
    /\ Show(Overview(current_analysis))

ExportTab ==
    /\ current_analysis # None
    /\ Show(Export(current_analysis))

(* Specification of rendering and exporting one result *)

\* the results analyze_contract can return for one contract
ViewInputs == { AnalysisResult(<<"N">>, <<"a">>, ok) : ok \in Outcomes }

InitView ==
    /\ OrchInit /\ PdfOff /\ SaveOff
    /\ current_analysis \in ViewInputs
    /\ analysis_history = <<>>
    /\ ui_message = None
    /\ rendered = None
    /\ SessionOff

NextView ==
    \/ DisplayAnalysisResultsConsole
    \/ CreateAnalysisMetrics
    \/ DisplayAgentResponses
    \/ CreateRiskVisualization
    \/ OverviewTab
    \/ ExportTab
    \/ SaveToFile
    \/ Tick

SpecView == InitView /\ [][NextView]_vars

----------------------------------------------------------------------------
(* A session of the web application.  Streamlit runs the script of one    *)
(* session from top to bottom for each click, so a click is served only   *)
(* when the click before it has been served.                              *)

\* the agents _initialize_agents creates, in its order
CreateOrder == <<"structure", "legal", "negotiation", "manager">>

\* what the creation of an agent raises, for a missing API key
CreateError == [type |-> "ValueError", msg |-> "API key missing"]

\* ContractAnalysisSystem(): the creation of agent `failed_at` raises, or
\* none does when failed_at = 0; `object` is self as __init__ leaves it
ContractAnalysisSystem(failed_at) ==
    LET created == IF failed_at = 0 THEN Len(CreateOrder) ELSE failed_at - 1
    IN  [object |->
            [agents |-> { CreateOrder[k] : k \in { j \in 1..3 : j <= created } },
             manager_agent |-> created = Len(CreateOrder)],
         raised |->
            IF failed_at = 0 THEN None
            ELSE IF ExceptException(CreateError)
                 THEN [type |-> "Exception",
                       msg |-> "Failed to initialize agents: " \o StrExc(CreateError)]
                 ELSE CreateError]

\* the "Initialize System" button storing the object whatever happened
InitializeSystemKeepsPartial(failed_at) ==
    /\ system = None
    /\ pc = "idle" /\ pdf_pc = "off"
    /\ LET constructed == ContractAnalysisSystem(failed_at)
       IN  /\ system' = constructed.object
           /\ ui_message' =
                 IF constructed.raised = None
                 THEN [kind |-> "initialized", path |-> None]
                 ELSE [kind |-> "initialization_failed", path |-> None]
    /\ UNCHANGED <<current_analysis, analysis_history, rendered,
                   session_contract_text, session_contract_name, uploaded_file>>
    /\ UNCHANGED <<orchVars, pdfVars, saveVars>>

\* the "Initialize System" button, shown while the session has no system;
\* an exception initialize_system does not catch ends the script run
InitializeSystem(failed_at) ==
    /\ system = None
    /\ pc = "idle" /\ pdf_pc = "off"
    /\ LET constructed == ContractAnalysisSystem(failed_at)
       IN  IF constructed.raised = None
           THEN /\ system' = constructed.object
                /\ ui_message' = [kind |-> "initialized", path |-> None]
           ELSE /\ system' = system
                /\ ui_message' =
                      IF ExceptException(constructed.raised)
                      THEN [kind |-> "initialization_failed", path |-> None]
                      ELSE [kind |-> "exception", path |-> None]
    /\ UNCHANGED <<current_analysis, analysis_history, rendered,
                   session_contract_text, session_contract_name, uploaded_file>>
    /\ UNCHANGED <<orchVars, pdfVars, saveVars>>

\* Path(name).stem
Stem(name) ==
    LET dots == { i \in 2..Len(name) : name[i] = "." }
    IN  IF dots = {} THEN name
        ELSE SubSeq(name, 1, (CHOOSE i \in dots : \A j \in dots : j <= i) - 1)

\* f"PDF Contract - {stem}"
PdfContractName(name) ==
    <<"P", "D", "F", " ", "C", "o", "n", "t", "r", "a", "c", "t", " ", "-", " ">>
       \o Stem(name)

\* a temporary copy of an upload: it exists and can be read
TempFile(open_error, pages) ==
    [exists |-> TRUE, readable |-> TRUE, open_error |-> open_error, pages |-> pages]

\* an upload: its name, what writing its temporary copy raises, the copy,
\* and what deleting the copy raises
Upload(name, temp_error, file, unlink_error) ==
    [name |-> name, temp_error |-> temp_error, file |-> file,
     unlink_error |-> unlink_error]

\* what open(temp_path, "wb") or unlink() raises in a directory that cannot
\* be written
TempError == [type |-> "PermissionError", msg |-> "Permission denied"]

\* the files a user uploads: a contract, a scan without text, a broken file
Uploads ==
    { Upload(<<"n", ".", "d", "a", ".", "p", "d", "f">>, None,
             TempFile(None, <<[error |-> None, text |-> <<"x">>]>>), None),
      Upload(<<"s", ".", "p", "d", "f">>, None,
             TempFile(None, <<[error |-> None, text |-> <<" ", "\n">>]>>), None),
      Upload(<<"b", ".", "p", "d", "f">>, None,
             TempFile(OpenError, <<>>), None) }

\* more uploads: a second contract with a damaged first page, a contract
\* whose temporary copy cannot be written, one whose copy cannot be deleted
MoreUploads ==
    Uploads \cup
    { Upload(<<"m", ".", "p", "d", "f">>, None,
             TempFile(None, <<[error |-> PageError, text |-> <<>>],
                              [error |-> None, text |-> <<" ", "y">>]>>), None),
      Upload(<<"t", ".", "p", "d", "f">>, TempError,
             TempFile(None, <<[error |-> None, text |-> <<"x">>]>>), None),
      Upload(<<"u", ".", "p", "d", "f">>, None,
             TempFile(None, <<[error |-> None, text |-> <<"x">>]>>), TempError) }

\* the "Extract Text from PDF" button: extract_pdf_text hands the temporary
\* copy to extract_text_from_pdf
ExtractTextFromPdf(upload) ==
    /\ system # None
    /\ pc = "idle" /\ pdf_pc = "off"
    /\ uploaded_file' = upload
    /\ IF upload.temp_error # None
       THEN /\ pdf_pc' = "raised"
            /\ pdf_raised' = upload.temp_error
            /\ pdf_file' = None
       ELSE /\ pdf_pc' = "start"
            /\ pdf_raised' = None
            /\ pdf_file' = upload.file
    /\ page_num' = 0
    /\ text_content' = <<>>
    /\ pdf_result' = None
    /\ UNCHANGED <<current_analysis, analysis_history, ui_message, rendered,
                   system, session_contract_text, session_contract_name>>
    /\ UNCHANGED <<orchVars, saveVars>>

\* extract_pdf_text returns and the button forgets the contract it held
\* when it got nothing
ExtractTextReturnClears ==
    /\ pdf_pc \in {"done", "raised"}
    /\ uploaded_file # None
    /\ LET text == IF pdf_pc = "done" /\ uploaded_file.unlink_error = None
                   THEN pdf_result ELSE None
       IN  IF text # None /\ Len(text.text) > 0
           THEN /\ session_contract_text' = text
                /\ session_contract_name' = Text(PdfContractName(uploaded_file.name))
                /\ ui_message' = [kind |-> "extracted", path |-> None]
           ELSE /\ session_contract_text' = None
                /\ session_contract_name' = None
                /\ ui_message' = [kind |-> "extraction_failed", path |-> None]
    /\ uploaded_file' = None
    /\ pdf_pc' = "off"
    /\ pdf_file' = None
    /\ page_num' = 0
    /\ text_content' = <<>>
    /\ pdf_result' = None
    /\ pdf_raised' = None
    /\ UNCHANGED <<current_analysis, analysis_history, rendered, system>>
    /\ UNCHANGED <<orchVars, saveVars>>

\* extract_pdf_text returns what extract_text_from_pdf returned, or None
\* when a step of it raised, and the button stores what it got
ExtractTextReturn ==
    /\ pdf_pc \in {"done", "raised"}
    /\ uploaded_file # None
    /\ LET text == IF pdf_pc = "done" /\ uploaded_file.unlink_error = None
                   THEN pdf_result ELSE None
       IN  IF text # None /\ Len(text.text) > 0
           THEN /\ session_contract_text' = text
                /\ session_contract_name' = Text(PdfContractName(uploaded_file.name))
                /\ ui_message' = [kind |-> "extracted", path |-> None]
           ELSE /\ UNCHANGED <<session_contract_text, session_contract_name>>
                /\ ui_message' = [kind |-> "extraction_failed", path |-> None]
    /\ uploaded_file' = None
    /\ pdf_pc' = "off"
    /\ pdf_file' = None
    /\ page_num' = 0
    /\ text_content' = <<>>
    /\ pdf_result' = None
    /\ pdf_raised' = None
    /\ UNCHANGED <<current_analysis, analysis_history, rendered, system>>
    /\ UNCHANGED <<orchVars, saveVars>>

\* the "Start Analysis" button, shown when both session values are truthy
StartAnalysis ==
    /\ system # None
    /\ pdf_pc = "off"
    /\ session_contract_text # None /\ Len(session_contract_text.text) > 0
    /\ session_contract_name # None /\ Len(session_contract_name.text) > 0
    /\ Len(analysis_history) < MaxHistory
    /\ AnalyzeContract(session_contract_text.text, session_contract_name.text)

\* analyze_contract has returned and the button replaces the history by a
\* list of the new result alone
StartAnalysisReturnReplaces ==
    /\ pc \in {"done", "raised"}
    /\ system # None
    /\ current_analysis' = result
    /\ analysis_history' = <<result>>
    /\ ui_message' = [kind |-> "analysis_completed", path |-> None]
    /\ pc' = "idle"
    /\ contract_text' = <<>>
    /\ contract_name' = <<>>
    /\ agent_responses' = <<>>
    /\ structure_analysis' = None
    /\ legal_analysis' = None
    /\ negotiation_analysis' = None
    /\ consolidation_prompt' = None
    /\ result' = None
    /\ propagated' = None
    /\ calls' = <<>>
    /\ UNCHANGED <<clock, rendered, sessionVars>>
    /\ UNCHANGED <<pdfVars, saveVars>>

\* analyze_contract has returned and the button stores the result; an
\* exception that left analyze_contract ends the script run instead
StartAnalysisReturn ==
    /\ pc \in {"done", "raised"}
    /\ system # None
    /\ IF pc = "done"
       THEN /\ current_analysis' = result
            /\ analysis_history' = Append(analysis_history, result)
            /\ ui_message' = [kind |-> "analysis_completed", path |-> None]
       ELSE /\ UNCHANGED <<current_analysis, analysis_history>>
            /\ ui_message' = [kind |-> "exception", path |-> None]
    /\ pc' = "idle"
    /\ contract_text' = <<>>
    /\ contract_name' = <<>>
    /\ agent_responses' = <<>>
    /\ structure_analysis' = None
    /\ legal_analysis' = None
    /\ negotiation_analysis' = None
    /\ consolidation_prompt' = None
    /\ result' = None
    /\ propagated' = None
    /\ calls' = <<>>
    /\ UNCHANGED <<clock, rendered, sessionVars>>
    /\ UNCHANGED <<pdfVars, saveVars>>

\* the table of the history page with the manager stage counted as an agent
HistoryTableCountsManager(history) ==
    [view |-> "history",
     total |-> Len(history),
     rows |-> [i \in 1..Len(history) |->
        LET agent_count == Len(history[i].agent_responses) + 1
            success_count ==
               Cardinality({ k \in 1..Len(history[i].agent_responses) :
                  ~HasKey(history[i].agent_responses[k].findings, "error") })
               + (IF HasKey(history[i].consolidated_findings, "error") THEN 0 ELSE 1)
        IN  [index |-> i,
             contract_name |-> history[i].contract_info.name,
             date |-> history[i].analysis_timestamp.second,
             length |-> history[i].contract_info.length,
             agents_success |-> <<success_count, agent_count>>,
             status |-> IF success_count = agent_count
                        THEN "Complete" ELSE "Partial"]]]

\* the table of the history page
HistoryTable(history) ==
    [view |-> "history",
     total |-> Len(history),
     rows |-> [i \in 1..Len(history) |->
        LET agent_count == Len(history[i].agent_responses)
            success_count ==
               Cardinality({ k \in 1..agent_count :
                  ~HasKey(history[i].agent_responses[k].findings, "error") })
        IN  [index |-> i,
             contract_name |-> history[i].contract_info.name,
             date |-> history[i].analysis_timestamp.second,
             length |-> history[i].contract_info.length,
             agents_success |-> <<success_count, agent_count>>,
             status |-> IF success_count = agent_count
                        THEN "Complete" ELSE "Partial"]]]

\* analysis_history_page is drawn, with or without a selected row
AnalysisHistoryPage ==
    /\ pc = "idle" /\ pdf_pc = "off"
    /\ Len(analysis_history) > 0
    /\ rendered' = HistoryTable(analysis_history)
    /\ UNCHANGED <<current_analysis, analysis_history, ui_message, sessionVars>>
    /\ UNCHANGED <<orchVars, pdfVars, saveVars>>

\* the "View Full Analysis" button under the selected row
ViewFullAnalysis(selected_idx) ==
    /\ pc = "idle" /\ pdf_pc = "off"
    /\ selected_idx \in 1..Len(analysis_history)
    /\ current_analysis' = analysis_history[selected_idx]
    /\ UNCHANGED <<analysis_history, ui_message, rendered, sessionVars>>
    /\ UNCHANGED <<orchVars, pdfVars, saveVars>>

(* Specification of a session *)

InitUI == Init

NextUI ==
    \/ \E failed_at \in 0..4 : InitializeSystem(failed_at)
    \/ \E upload \in Uploads : ExtractTextFromPdf(upload)
    \/ PdfOpen
    \/ PdfPage
    \/ PdfFinish
    \/ ExtractTextReturn
    \/ StartAnalysis
    \/ StructureCall
    \/ StructureReturn(SampleReply, 0)
    \/ StructureExcept(SampleError, 0)
    \/ LegalCall
    \/ LegalReturn(SampleReply, 0)
    \/ LegalExcept(SampleError, 0)
    \/ NegotiationCall
    \/ NegotiationReturn(SampleReply, 0)
    \/ NegotiationExcept(SampleError, 0)
    \/ ManagerCall
    \/ ManagerReturn(SampleReply, 0)
    \/ ManagerExcept(SampleError, 0)
    \/ StartAnalysisReturn
    \/ \E selected_idx \in 1..MaxHistory : ViewFullAnalysis(selected_idx)
    \/ AnalysisHistoryPage

SpecUI == InitUI /\ [][NextUI]_vars

(* Specification of a session that uploads: every kind of upload, and     *)
(* the analyses of what was extracted, by agents that answer (their       *)
(* failures are the subject of Spec and SpecUI)                           *)

NextUpload ==
    \/ \E failed_at \in 0..4 : InitializeSystem(failed_at)
    \/ \E upload \in MoreUploads : ExtractTextFromPdf(upload)
    \/ PdfOpen
    \/ PdfPage
    \/ PdfFinish
    \/ ExtractTextReturn
    \/ StartAnalysis
    \/ StructureCall
    \/ StructureReturn(SampleReply, 0)
    \/ LegalCall
    \/ LegalReturn(SampleReply, 0)
    \/ NegotiationCall
    \/ NegotiationReturn(SampleReply, 0)
    \/ ManagerCall
    \/ ManagerReturn(SampleReply, 0)
    \/ StartAnalysisReturn

SpecUpload == InitUI /\ [][NextUpload]_vars

----------------------------------------------------------------------------
(* Vocabulary of the properties: what the hosted-model side observed *)

StageOrder == <<"structure", "legal", "negotiation", "manager">>

Called(agent) == \E i \in 1..Len(calls) : calls[i].agent = agent

Raised(agent) ==
    \E i \in 1..Len(calls) : calls[i].agent = agent /\ calls[i].outcome = "raised"

Returned(agent) ==
    \E i \in 1..Len(calls) : calls[i].agent = agent /\ calls[i].outcome = "returned"

\* what the run() call of `agent` returned or raised
ValueOf(agent) ==
    calls[CHOOSE i \in 1..Len(calls) : calls[i].agent = agent].value

\* the text a reply object carries
OutputOf(reply) == IF reply.has_content THEN reply.content ELSE reply.str

\* the recorded response of a specialist stage exists
Recorded(i) == Len(agent_responses) >= i

AllSpecialistsRaised ==
    Raised("structure") /\ Raised("legal") /\ Raised("negotiation")

AllSpecialistsReturned ==
    Returned("structure") /\ Returned("legal") /\ Returned("negotiation")

----------------------------------------------------------------------------
(* C1: whatever stages fail, the result analyze_contract returns holds    *)
(* exactly 3 agent responses named ContractStructureAgent,                *)
(* LegalFrameworkAgent, NegotiationAgent in that order, a failed stage's  *)
(* placeholder in the position of its stage, and a traceability_map with  *)
(* exactly the keys structure_agent, legal_agent, negotiation_agent,      *)
(* manager_agent.                                                         *)
C1_ThreeResponsesFourKeys ==
    pc = "done" =>
        /\ result # None
        /\ Len(result.agent_responses) = 3
        /\ result.agent_responses[1].agent_name = "ContractStructureAgent"
        /\ result.agent_responses[2].agent_name = "LegalFrameworkAgent"
        /\ result.agent_responses[3].agent_name = "NegotiationAgent"
        /\ \A i \in 1..3 :
              Raised(StageOrder[i])
                 <=> "error" \in DOMAIN result.agent_responses[i].findings
        /\ DOMAIN result.traceability_map =
              {"structure_agent", "legal_agent", "negotiation_agent",
               "manager_agent"}

C1_Witness ==
    pc = "done" /\ AllSpecialistsRaised /\ Raised("manager") /\ result # None

(* C2: a failed stage never prevents a later stage from running: once the *)
(* structure call has raised the legal call is made, once structure or    *)
(* legal has raised the negotiation call is made, and once any specialist *)
(* call has raised the manager call is made.                              *)
C2_FailureDoesNotStopLaterStages ==
    /\ Raised("structure") ~> Called("legal")
    /\ (Raised("structure") \/ Raised("legal")) ~> Called("negotiation")
    /\ (Raised("structure") \/ Raised("legal") \/ Raised("negotiation"))
          ~> Called("manager")

C2_Witness == AllSpecialistsRaised /\ Called("manager")

(* C3: the response recorded for a specialist call that raised has        *)
(* findings with the key 'error' and without 'raw_response', exactly one  *)
(* recommendation, risk_level HIGH (structure, legal) or MEDIUM           *)
(* (negotiation), and confidence 0.3 / 0.2 / 0.4, each strictly below the *)
(* confidence of the same stage's successful response.                    *)
C3_FailurePlaceholder ==
    /\ (Raised("structure") /\ Recorded(1)) =>
          /\ "error" \in DOMAIN agent_responses[1].findings
          /\ "raw_response" \notin DOMAIN agent_responses[1].findings
          /\ agent_responses[1].recommendations =
                <<"Manual structure review required">>
          /\ agent_responses[1].risk_level = "HIGH"
          /\ agent_responses[1].confidence_score = 30
          /\ \A r \in Replies :
                agent_responses[1].confidence_score
                   < StructureSuccess(r, IsoFormat(clock)).confidence_score
    /\ (Raised("legal") /\ Recorded(2)) =>
          /\ "error" \in DOMAIN agent_responses[2].findings
          /\ "raw_response" \notin DOMAIN agent_responses[2].findings
          /\ agent_responses[2].recommendations =
                <<"Legal review by qualified attorney required">>
          /\ agent_responses[2].risk_level = "HIGH"
          /\ agent_responses[2].confidence_score = 20
          /\ \A r \in Replies :
                agent_responses[2].confidence_score
                   < LegalSuccess(r, IsoFormat(clock)).confidence_score
    /\ (Raised("negotiation") /\ Recorded(3)) =>
          /\ "error" \in DOMAIN agent_responses[3].findings
          /\ "raw_response" \notin DOMAIN agent_responses[3].findings
          /\ agent_responses[3].recommendations =
                <<"Manual negotiation strategy development required">>
          /\ agent_responses[3].risk_level = "MEDIUM"
          /\ agent_responses[3].confidence_score = 40
          /\ \A r \in Replies :
                agent_responses[3].confidence_score
                   < NegotiationSuccess(r, IsoFormat(clock)).confidence_score

C3_Witness == AllSpecialistsRaised /\ Recorded(3)

(* C4: the response recorded for a specialist call that returned has      *)
(* findings with the single key 'raw_response' holding the model output,  *)
(* no recommendations, risk_level PENDING whatever the model replied, and *)
(* the confidence of its stage: 0.8, 0.85, 0.75.                          *)
C4_SuccessResponse ==
    \A i \in 1..3 :
        (Returned(StageOrder[i]) /\ Recorded(i)) =>
            /\ DOMAIN agent_responses[i].findings = {"raw_response"}
            /\ agent_responses[i].findings.raw_response
                  = OutputOf(ValueOf(StageOrder[i]))
            /\ agent_responses[i].recommendations = <<>>
            /\ agent_responses[i].risk_level = "PENDING"
            /\ agent_responses[i].confidence_score = <<80, 85, 75>>[i]

C4_Witness ==
    /\ AllSpecialistsReturned /\ Recorded(3)
    /\ agent_responses[1].findings.raw_response = "risk_level: HIGH"
    /\ agent_responses[2].findings.raw_response = "risk_level: LOW"

(* C5: a run issues the four agent calls once each in the order           *)
(* structure, legal, negotiation, manager; a call starts only after the   *)
(* previous one has returned or raised, and a call that raised is not     *)
(* made again.                                                            *)
C5_SequentialOnceEach ==
    /\ Len(calls) <= 4
    /\ \A i \in 1..Len(calls) :
          /\ calls[i].agent = StageOrder[i]
          /\ i < Len(calls) => calls[i].outcome \in {"returned", "raised"}
    /\ pc = "done" =>
          /\ Len(calls) = 4
          /\ calls[4].outcome \in {"returned", "raised"}

C5_Witness ==
    pc = "done" /\ Raised("structure") /\ Raised("manager") /\ Len(calls) = 4

(* C6 as stated: when the manager call raises, the result has             *)
(* consolidated_findings with 'error' and without 'manager_synthesis', an *)
(* overall risk of "UNKNOWN", and the three specialist responses as       *)
(* recorded before the manager stage.                                     *)
C6_Original ==
    (pc = "done" /\ Raised("manager")) =>
        /\ "error" \in DOMAIN result.consolidated_findings
        /\ "manager_synthesis" \notin DOMAIN result.consolidated_findings
        /\ DOMAIN result.risk_assessment = {"overall_risk"}
        /\ result.risk_assessment.overall_risk = "UNKNOWN"
        /\ result.agent_responses
              = <<structure_analysis, legal_analysis, negotiation_analysis>>

(* C6 amended: when the manager call raises, the result has               *)
(* consolidated_findings with 'error' and without 'manager_synthesis',    *)
(* risk_assessment.overall_risk equal to the text                         *)
(* "UNKNOWN - Analysis incomplete", and the three specialist responses as *)
(* recorded before the manager stage.                                     *)
C6_PartialResult ==
    (pc = "done" /\ Raised("manager")) =>
        /\ "error" \in DOMAIN result.consolidated_findings
        /\ "manager_synthesis" \notin DOMAIN result.consolidated_findings
        /\ DOMAIN result.risk_assessment = {"overall_risk"}
        /\ result.risk_assessment.overall_risk = "UNKNOWN - Analysis incomplete"
        /\ result.agent_responses
              = <<structure_analysis, legal_analysis, negotiation_analysis>>
        /\ result.agent_responses = agent_responses

C6_Witness ==
    pc = "done" /\ Raised("manager") /\ Returned("structure") /\ Raised("legal")

(* C7: the manager entry of traceability_map is                           *)
(* 'ContractAnalysisManager (FAILED)' exactly when the manager call       *)
(* raised and 'ContractAnalysisManager' exactly when it returned, in      *)
(* agreement with consolidated_findings (only 'error' on failure, only    *)
(* 'manager_synthesis' on success); the three specialist entries are the  *)
(* plain agent names also when the specialist failed.                     *)
C7_ManagerEntry ==
    pc = "done" =>
        /\ (result.traceability_map.manager_agent
               = "ContractAnalysisManager (FAILED)") <=> Raised("manager")
        /\ (result.traceability_map.manager_agent
               = "ContractAnalysisManager") <=> Returned("manager")
        /\ Raised("manager") <=>
              DOMAIN result.consolidated_findings = {"error"}
        /\ Returned("manager") <=>
              DOMAIN result.consolidated_findings = {"manager_synthesis"}
        /\ result.traceability_map.structure_agent = "ContractStructureAgent"
        /\ result.traceability_map.legal_agent = "LegalFrameworkAgent"
        /\ result.traceability_map.negotiation_agent = "NegotiationAgent"

C7_Witness ==
    pc = "done" /\ Raised("manager") /\ AllSpecialistsRaised
       /\ result.traceability_map.manager_agent
             = "ContractAnalysisManager (FAILED)"

(* C8: analyze_contract lets no exception of an agent call escape: for    *)
(* every combination of returning and raising calls it ends by returning  *)
(* a ContractAnalysisResult.                                              *)
C8_NeverPropagates ==
    /\ [](pc # "raised" /\ propagated = None)
    /\ <>(pc = "done" /\ result # None)

C8_Witness ==
    pc = "done" /\ result # None /\ AllSpecialistsRaised /\ Raised("manager")
       /\ propagated = None

(* C9: the manager call is issued only after the three specialist         *)
(* responses are recorded, and its prompt embeds their findings maps in   *)
(* the order structure, legal, negotiation: the 'raw_response' map of a   *)
(* stage that returned, the 'error' map of a stage that raised.           *)
C9_ManagerPrompt ==
    Called("manager") =>
        /\ Len(agent_responses) = 3
        /\ LET prompt == calls[4].prompt
               Expected(agent) ==
                   IF Returned(agent)
                   THEN DictStr([raw_response |-> OutputOf(ValueOf(agent))])
                   ELSE DictStr([error |-> ValueOf(agent).msg])
           IN  /\ prompt = consolidation_prompt
               /\ prompt.structure_findings = Expected("structure")
               /\ prompt.legal_findings = Expected("legal")
               /\ prompt.negotiation_findings = Expected("negotiation")
               /\ prompt.structure_findings = DictStr(agent_responses[1].findings)
               /\ prompt.legal_findings = DictStr(agent_responses[2].findings)
               /\ prompt.negotiation_findings
                     = DictStr(agent_responses[3].findings)

C9_Witness ==
    /\ Called("manager")
    /\ Returned("structure") /\ Raised("legal") /\ Returned("negotiation")
    /\ calls[4].prompt.legal_findings = "{'error': 'timed out'}"

----------------------------------------------------------------------------
\* some page of the file yields text with a character that is not whitespace
YieldsText(f) ==
    \E i \in 1..Len(f.pages) :
        /\ f.pages[i].error = None
        /\ \E j \in 1..Len(f.pages[i].text) : f.pages[i].text[j] \notin Whitespace

(* C10: extract_text_from_pdf never raises, and returns None when the     *)
(* path does not exist, when the file is not readable, when opening or    *)
(* parsing raises, when the PDF has zero pages and when no page yields    *)
(* non-empty text.                                                        *)
C10_AbsentOnFailure ==
    /\ pdf_pc # "raised"
    /\ pdf_raised = None
    /\ (/\ pdf_pc = "done"
        /\ \/ ~pdf_file.exists
           \/ ~pdf_file.readable
           \/ pdf_file.open_error # None
           \/ Len(pdf_file.pages) = 0
           \/ ~YieldsText(pdf_file))
       => pdf_result = None

C10_Witness ==
    /\ pdf_pc = "done"
    /\ pdf_result = None
    /\ pdf_file.exists /\ pdf_file.readable /\ pdf_file.open_error = None
    /\ Len(pdf_file.pages) = 3
    /\ pdf_file.pages[1].error # None
    /\ pdf_file.pages[2].error = None /\ pdf_file.pages[2].text = <<" ", "\n">>
    /\ pdf_file.pages[3].error = None /\ pdf_file.pages[3].text = <<>>

----------------------------------------------------------------------------
\* page i of the file was extracted and its text is not blank
Contributes(f, i) ==
    /\ f.pages[i].error = None
    /\ \E j \in 1..Len(f.pages[i].text) : f.pages[i].text[j] \notin Whitespace

\* the marker line of page N, 1 <= N <= 9
MarkerLine(N) ==
    <<"-", "-", "-", " ", "P", "a", "g", "e", " ",
      <<"1", "2", "3", "4", "5", "6", "7", "8", "9">>[N],
      " ", "-", "-", "-">>

\* the blocks of pages i.. of the file, each led by a newline
RECURSIVE BlocksFrom(_, _)
BlocksFrom(f, i) ==
    IF i > Len(f.pages) THEN <<>>
    ELSE (IF Contributes(f, i)
          THEN <<"\n">> \o MarkerLine(i) \o <<"\n">> \o f.pages[i].text
          ELSE <<>>) \o BlocksFrom(f, i + 1)

(* C11: for a readable PDF with a page of non-blank text the extractor    *)
(* returns, joined by newlines and in ascending page order, one           *)
(* '--- Page N ---' marker (N counted from 1) followed by the page's text *)
(* for each page that was extracted with non-blank text; pages whose      *)
(* extraction raises and blank pages contribute nothing and do not stop   *)
(* the extraction.                                                        *)
C11_MarkedPages ==
    (/\ pdf_pc = "done"
     /\ pdf_file.exists /\ pdf_file.readable /\ pdf_file.open_error = None
     /\ YieldsText(pdf_file))
    => /\ pdf_result # None
       /\ pdf_result.text = Tail(BlocksFrom(pdf_file, 1))

C11_Witness ==
    /\ pdf_pc = "done"
    /\ Len(pdf_file.pages) = 3
    /\ pdf_file.pages[1].error # None
    /\ pdf_file.pages[2].error = None /\ pdf_file.pages[2].text = <<" ", "\n">>
    /\ pdf_file.pages[3].error = None /\ pdf_file.pages[3].text = <<" ", "y">>
    /\ pdf_result # None
    /\ pdf_result.text =
          <<"-", "-", "-", " ", "P", "a", "g", "e", " ", "3", " ", "-", "-", "-",
            "\n", " ", "y">>

----------------------------------------------------------------------------
(* Vocabulary of the properties about saving *)

\* the calls of save_analysis_results that returned a path
Saved == { i \in 1..Len(saves) : saves[i].ret # None }

\* the character is alphanumeric, a space, a hyphen or an underscore
IsSafe(c) == c \in Alnum \cup {" ", "-", "_"}

\* s without its leading and trailing whitespace
Trimmed(s) ==
    LET inner == { i \in 1..Len(s) : s[i] \notin Whitespace }
    IN  IF inner = {} THEN <<>>
        ELSE SubSeq(s, CHOOSE i \in inner : \A j \in inner : i <= j,
                       CHOOSE i \in inner : \A j \in inner : i >= j)

\* the file at `path`
FileAt(path) == CHOOSE x \in fs.files : x.path = path

(* C12 as stated: the file is named                                       *)
(* contract_analysis_<clean>_<YYYYMMDD_HHMMSS>.json, <clean> being the    *)
(* contract name without the characters that are not alphanumeric, space, *)
(* hyphen or underscore, the others in their order.                       *)
C12_Original ==
    \A i \in Saved :
        saves[i].ret.path.name =
            FileName(SelectSeq(saves[i].result.contract_info.name, IsSafe),
                     StrfTime(saves[i].at))

(* C12 amended: the file is named                                         *)
(* contract_analysis_<clean>_<YYYYMMDD_HHMMSS>.json, <clean> being the    *)
(* contract name without the characters that are not alphanumeric, space, *)
(* hyphen or underscore, the others in their order, and then without      *)
(* leading and trailing whitespace; 'Acme/Co.: NDA?' gives 'AcmeCo NDA'.  *)
C12_FileName ==
    \A i \in Saved :
        /\ saves[i].ret.path.name =
              FileName(Trimmed(SelectSeq(saves[i].result.contract_info.name, IsSafe)),
                       StrfTime(saves[i].at))
        /\ (saves[i].result.contract_info.name = AcmeName /\ saves[i].at = 0) =>
              saves[i].ret.path.name =
                 <<"c", "o", "n", "t", "r", "a", "c", "t", "_",
                   "a", "n", "a", "l", "y", "s", "i", "s", "_",
                   "A", "c", "m", "e", "C", "o", " ", "N", "D", "A", "_",
                   "2", "0", "2", "6", "1", "1", "0", "3", "_",
                   "0", "0", "0", "0", "0", "0", ".", "j", "s", "o", "n">>

C12_Witness ==
    \E i \in Saved, j \in Saved :
        /\ saves[i].result.contract_info.name = AcmeName
        /\ saves[j].result.contract_info.name = <<"?", " ", "N", "-", " ">>
        /\ saves[j].ret.path.name =
              FileName(<<"N", "-">>, StrfTime(saves[j].at))

(* C13: re-loading the JSON file a save has just written gives            *)
(* agent_responses with the agent names, risk levels and confidence       *)
(* scores of the saved result, in the same order.                         *)
C13_RoundTrip ==
    (Len(saves) > 0 /\ saves[Len(saves)].ret # None) =>
        LET saved == saves[Len(saves)].result
            loaded == JsonLoad(FileAt(saves[Len(saves)].ret.path).content)
        IN  /\ Len(loaded.agent_responses) = Len(saved.agent_responses)
            /\ \A k \in 1..Len(saved.agent_responses) :
                  /\ loaded.agent_responses[k].agent_name
                        = saved.agent_responses[k].agent_name
                  /\ loaded.agent_responses[k].risk_level
                        = saved.agent_responses[k].risk_level
                  /\ loaded.agent_responses[k].confidence_score
                        = saved.agent_responses[k].confidence_score

C13_Witness ==
    /\ Len(saves) = 2
    /\ saves[1].ret # None /\ saves[2].ret # None
    /\ saves[1].result.agent_responses[2].confidence_score = 85
    /\ saves[2].result.agent_responses[3].risk_level = "MEDIUM"
    /\ JsonLoad(FileAt(saves[2].ret.path).content).agent_responses[3].confidence_score
          = 40

(* C14: a failure while saving (creating the directory, opening the file, *)
(* serializing) is caught: save_analysis_results returns None and raises  *)
(* nothing, and the web page then shows the failure instead of a path.    *)
C14_SaveFailureCaught ==
    /\ save_raised = None
    /\ \A i \in 1..Len(saves) :
          /\ ~saves[i].escaped
          /\ saves[i].error # None <=> saves[i].ret = None
    /\ LET web == { i \in 1..Len(saves) : saves[i].caller = "web" }
       IN  IF web = {} THEN ui_message = None
           ELSE LET last == CHOOSE i \in web : \A j \in web : j <= i
                IN  /\ ui_message # None
                    /\ ui_message.kind = "error" <=> saves[last].error # None
                    /\ ui_message.kind = "success" <=> saves[last].error = None
                    /\ ui_message.kind = "success" =>
                          ui_message.path = saves[last].ret

C14_Witness ==
    /\ Len(saves) = 2
    /\ saves[1].caller = "script" /\ saves[1].error # None
    /\ saves[1].error.type = "FileNotFoundError" /\ saves[1].ret = None
    /\ saves[2].caller = "web" /\ saves[2].error # None
    /\ saves[2].error.type = "TypeError" /\ save_return = None
    /\ ui_message # None /\ ui_message.kind = "error"

(* C15: save_analysis_results creates the output directory when it is     *)
(* absent, also when its parent directories are absent, and then writes   *)
(* the file under it and returns its path.                                *)
C15_CreatesOutputDir ==
    \A i \in 1..Len(saves) :
        (~saves[i].dir_existed /\ Serializable(saves[i].result)) =>
            /\ saves[i].ret # None
            /\ saves[i].dir \in fs.dirs
            /\ \E x \in fs.files : x.path = saves[i].ret.path

(* C16: after N successful saves the file system holds N distinct result  *)
(* files, none overwritten by a later save, also for saves in the same    *)
(* second and for names that sanitize to the same string.                 *)
C16_OneFilePerSave ==
    Cardinality({ x \in fs.files : x.content.json = "object" }) = Cardinality(Saved)

----------------------------------------------------------------------------
(* Vocabulary of the properties about rendering *)

\* stage k of structure, legal, negotiation, manager failed in the analysis
\* that produced r
StageFailed(r, k) ==
    IF k <= 3 THEN HasKey(r.agent_responses[k].findings, "error")
    ELSE HasKey(r.consolidated_findings, "error")

(* C17: rendering and exporting are read-only: no step of the console     *)
(* renderer, of the web renderers or of save_analysis_results changes a   *)
(* field of the result or of its agent responses.                         *)
C17_ReadOnly ==
    [][/\ current_analysis' = current_analysis
       /\ analysis_history' = analysis_history]_vars

C17_Witness ==
    /\ rendered # None /\ rendered.view = "visualizations"
    /\ Len(saves) > 0 /\ saves[Len(saves)].ret # None
    /\ saves[Len(saves)].result = current_analysis
    /\ current_analysis.agent_responses[1].agent_name = "ContractStructureAgent"

(* C19: the console renderer labels each of the four traceability entries *)
(* FAILED exactly when the corresponding stage failed, the manager's      *)
(* included, and COMPLETED otherwise.                                     *)
C19_ConsoleStatus ==
    (rendered # None /\ rendered.view = "console") =>
        \A k \in 1..4 :
            /\ rendered.trace[k].status = "FAILED" <=> StageFailed(current_analysis, k)
            /\ rendered.trace[k].status = "COMPLETED" <=> ~StageFailed(current_analysis, k)

(* C20: the web traceability table shows Failed for a role exactly when   *)
(* that role's stage failed, specialist or manager, and Completed         *)
(* otherwise.                                                             *)
C20_WebStatus ==
    (rendered # None /\ rendered.view = "overview") =>
        \A k \in 1..4 :
            /\ rendered.trace[k].status = "Failed" <=> StageFailed(current_analysis, k)
            /\ rendered.trace[k].status = "Completed" <=> ~StageFailed(current_analysis, k)

(* C18: in a session every completed Start Analysis appends exactly one   *)
(* result to the history: the history changes only when an analysis       *)
(* completes, and then by the new result added at its end; a later        *)
(* analysis, viewing a result or selecting a history row changes no       *)
(* earlier entry.                                                         *)
C18_HistoryAppendOnly ==
    [][/\ (pc = "done" /\ pc' = "idle") =>
             /\ Len(analysis_history') = Len(analysis_history) + 1
             /\ analysis_history'[Len(analysis_history')] = result
       /\ ~(pc = "done" /\ pc' = "idle") =>
             Len(analysis_history') = Len(analysis_history)
       /\ \A i \in 1..Len(analysis_history) :
             /\ i <= Len(analysis_history')
             /\ analysis_history'[i] = analysis_history[i]]_vars

C18_Witness ==
    /\ Len(analysis_history) = 2
    /\ analysis_history[1] # analysis_history[2]
    /\ current_analysis = analysis_history[1]
    /\ rendered # None /\ rendered.view = "history"
    /\ HasKey(analysis_history[1].consolidated_findings, "error")
    /\ ~HasKey(analysis_history[2].consolidated_findings, "error")

(* C21: for every result in the history the history view shows the        *)
(* success ratio k/3, k being the number of specialist responses without  *)
(* an 'error' key, and the status Complete exactly when k = 3 and Partial *)
(* otherwise; the manager stage enters neither, so an analysis whose      *)
(* manager failed after three successful specialists is listed Complete.  *)
C21_HistorySuccessRatio ==
    (rendered # None /\ rendered.view = "history") =>
        \A i \in 1..Len(rendered.rows) :
            LET k == Cardinality({ j \in 1..3 : ~StageFailed(analysis_history[i], j) })
            IN  /\ rendered.rows[i].agents_success = <<k, 3>>
                /\ rendered.rows[i].status = "Complete" <=> k = 3
                /\ rendered.rows[i].status = "Partial" <=> k # 3

C21_Witness ==
    /\ rendered # None /\ rendered.view = "history"
    /\ Len(rendered.rows) = 2
    /\ StageFailed(analysis_history[1], 4)
    /\ \A j \in 1..3 : ~StageFailed(analysis_history[1], j)
    /\ rendered.rows[1].status = "Complete"
    /\ rendered.rows[1].agents_success = <<3, 3>>
    /\ StageFailed(analysis_history[2], 2)
    /\ rendered.rows[2].status = "Partial"
    /\ rendered.rows[2].agents_success = <<2, 3>>

(* C22: for every result of analyze_contract the overall risk shown by    *)
(* create_analysis_metrics is UNKNOWN exactly when all three specialists  *)
(* succeeded, HIGH exactly when the structure or the legal stage failed,  *)
(* MEDIUM exactly when only the negotiation stage failed, and never LOW.  *)
C22_OverallRisk ==
    (rendered # None /\ rendered.view = "metrics") =>
        LET failed(k) == StageFailed(current_analysis, k)
        IN  /\ rendered.overall_risk = "UNKNOWN" <=>
                  (~failed(1) /\ ~failed(2) /\ ~failed(3))
            /\ rendered.overall_risk = "HIGH" <=> (failed(1) \/ failed(2))
            /\ rendered.overall_risk = "MEDIUM" <=>
                  (~failed(1) /\ ~failed(2) /\ failed(3))
            /\ rendered.overall_risk # "LOW"

C22_Witness ==
    /\ rendered # None /\ rendered.view = "metrics"
    /\ StageFailed(current_analysis, 3) /\ StageFailed(current_analysis, 4)
    /\ ~StageFailed(current_analysis, 1) /\ ~StageFailed(current_analysis, 2)
    /\ rendered.overall_risk = "MEDIUM"
    /\ rendered.risk_color = "orange"

----------------------------------------------------------------------------
(* Vocabulary of the properties about a session *)

\* a session value is set and not empty
Truthy(value) == value # None /\ Len(value.text) > 0

\* the step enters analyze_contract
Invokes == pc = "idle" /\ pc' # "idle"

\* the system holds the three specialists and the manager
Complete(sys) ==
    /\ sys.agents = {"structure", "legal", "negotiation"}
    /\ sys.manager_agent

(* C23: analyze_contract is invoked only when the session's system is     *)
(* initialized and contract_text and contract_name are both non-empty,    *)
(* and it is given these two; the system becomes non-None only by a       *)
(* construction that created the three specialists and the manager, and   *)
(* stays None when the construction raised.                               *)
C23_GuardedAnalysis ==
    [][/\ Invokes =>
             /\ system # None /\ Complete(system)
             /\ Truthy(session_contract_text) /\ Truthy(session_contract_name)
             /\ contract_text' = session_contract_text.text
             /\ contract_name' = session_contract_name.text
       /\ (system = None /\ system' # None) =>
             /\ Complete(system')
             /\ ui_message' = [kind |-> "initialized", path |-> None]
       /\ system # None => system' = system
       /\ (ui_message' # ui_message /\ ui_message' # None
             /\ ui_message'.kind = "initialization_failed") =>
             (system = None /\ system' = None)]_vars

C23_Witness ==
    /\ pc = "manager_run"
    /\ system # None /\ Complete(system)
    /\ Truthy(session_contract_text)
    /\ contract_text = session_contract_text.text
    /\ contract_name = PdfContractName(<<"n", ".", "d", "a", ".", "p", "d", "f">>)
    /\ Len(analysis_history) = 1

\* extract_pdf_text is about to return a text that is not empty
ExtractionSucceeds ==
    /\ pdf_pc = "done" /\ uploaded_file # None
    /\ uploaded_file.unlink_error = None
    /\ pdf_result # None /\ Len(pdf_result.text) > 0

\* the step is the end of an extraction that gave nothing
ExtractionFails ==
    /\ pdf_pc \in {"done", "raised"} /\ pdf_pc' = "off"
    /\ ~ExtractionSucceeds

(* C24: the session's contract_text and contract_name change only on a    *)
(* successful PDF extraction, and then both are set, to the extracted     *)
(* text and to the name made from the uploaded file; a failed extraction  *)
(* of a new upload leaves both as they were, so Start Analysis stays      *)
(* available and analyses the contract extracted before, under its name.  *)
C24_SessionContract ==
    /\ [][/\ (\/ session_contract_text' # session_contract_text
              \/ session_contract_name' # session_contract_name) =>
                /\ ExtractionSucceeds
                /\ session_contract_text' = pdf_result
                /\ session_contract_name' = Text(PdfContractName(uploaded_file.name))
          /\ (ExtractionSucceeds /\ pdf_pc' = "off") =>
                /\ session_contract_text' = pdf_result
                /\ session_contract_name' = Text(PdfContractName(uploaded_file.name))
          /\ ExtractionFails =>
                /\ session_contract_text' = session_contract_text
                /\ session_contract_name' = session_contract_name
          /\ Invokes =>
                /\ contract_text' = session_contract_text.text
                /\ contract_name' = session_contract_name.text]_vars
    /\ []((/\ ui_message # None /\ ui_message.kind = "extraction_failed"
           /\ pc = "idle" /\ pdf_pc = "off"
           /\ Truthy(session_contract_text) /\ Truthy(session_contract_name)
           /\ Len(analysis_history) < MaxHistory)
          => ENABLED StartAnalysis)

C24_Witness ==
    /\ ui_message # None /\ ui_message.kind = "extraction_failed"
    /\ pc = "manager_run"
    /\ Len(analysis_history) = 1
    /\ analysis_history[1].contract_info.name
          = PdfContractName(<<"n", ".", "d", "a", ".", "p", "d", "f">>)
    /\ session_contract_text = Text(<<"-", "-", "-", " ", "P", "a", "g", "e", " ",
                                     "2", " ", "-", "-", "-", "\n", " ", "y">>)
    /\ session_contract_name =
          Text(<<"P", "D", "F", " ", "C", "o", "n", "t", "r", "a", "c", "t",
                 " ", "-", " ", "m">>)
    /\ contract_text = session_contract_text.text
    /\ contract_name = session_contract_name.text

====
